---------------------------- MODULE Spec2Model ----------------------------
(***************************************************************************)
(* midi-play (src/src/main.rs): a Standard MIDI File is converted into one *)
(* time-ordered timeline of timestamped events, which a conductor thread   *)
(* replays against the wall clock into a mutex-guarded synthesizer while   *)
(* the audio callback pulls samples from the same synthesizer.             *)
(***************************************************************************)
EXTENDS Integers, Sequences, FiniteSets, TLC

(***************************************************************************)
(* IEEE-754 binary64 arithmetic, as main.rs lines 129-130 use it.          *)
(* A natural number is a little-endian sequence of limbs in base 2^10      *)
(* without leading zero limbs (<<>> is 0).  A positive double is [m, e]    *)
(* with m a 53-bit significand and value m * 2^e; zero has m = <<>>.       *)
(* Every operation rounds to nearest, ties to even, as the hardware does.  *)
(* The values the program computes here are far from the subnormal and     *)
(* overflow ranges.                                                        *)
(***************************************************************************)
MantBits == 53
LimbBits == 10
Base == 2 ^ LimbBits

RECURSIVE Nat2Limbs(_)
Nat2Limbs(n) == IF n = 0 THEN <<>> ELSE <<n % Base>> \o Nat2Limbs(n \div Base)

RECURSIVE Limbs2Nat(_)
Limbs2Nat(b) == IF b = <<>> THEN 0 ELSE b[1] + Base * Limbs2Nat(Tail(b))

RECURSIVE Trim(_)
Trim(b) ==
    IF b = <<>> THEN <<>>
    ELSE IF b[Len(b)] = 0 THEN Trim(SubSeq(b, 1, Len(b) - 1)) ELSE b

Zeros(n) == [k \in 1..n |-> 0]

RECURSIVE SmallBitLen(_)
SmallBitLen(n) == IF n = 0 THEN 0 ELSE 1 + SmallBitLen(n \div 2)

BitLen(b) ==
    IF b = <<>> THEN 0 ELSE LimbBits * (Len(b) - 1) + SmallBitLen(b[Len(b)])

RECURSIVE AddC(_, _, _)
AddC(a, b, c) ==
    IF a = <<>> /\ b = <<>> THEN (IF c = 0 THEN <<>> ELSE <<c>>)
    ELSE LET x == IF a = <<>> THEN 0 ELSE a[1]
             y == IF b = <<>> THEN 0 ELSE b[1]
             s == x + y + c
         IN  <<s % Base>> \o AddC(IF a = <<>> THEN <<>> ELSE Tail(a),
                                  IF b = <<>> THEN <<>> ELSE Tail(b), s \div Base)

RECURSIVE MulSmallRec(_, _, _, _)
MulSmallRec(b, s, k, carry) ==
    IF k > Len(b) THEN Nat2Limbs(carry)
    ELSE LET v == b[k] * s + carry
         IN  <<v % Base>> \o MulSmallRec(b, s, k + 1, v \div Base)

\* b * s for an integer 0 <= s < 2^21.
MulSmall(b, s) == IF s = 0 THEN <<>> ELSE MulSmallRec(b, s, 1, 0)

RECURSIVE MulBig(_, _)
MulBig(a, b) ==
    IF a = <<>> \/ b = <<>> THEN <<>>
    ELSE LET rest == MulBig(Tail(a), b)
         IN  AddC(MulSmall(b, a[1]), IF rest = <<>> THEN <<>> ELSE <<0>> \o rest, 0)

\* b divided by the integer 0 < d < 2^21: quotient and remainder.
RECURSIVE ShortDivRec(_, _, _, _)
ShortDivRec(b, d, k, rem) ==
    IF k > Len(b) THEN [q |-> <<>>, r |-> rem]
    ELSE LET cur  == Base * rem + b[Len(b) + 1 - k]
             rest == ShortDivRec(b, d, k + 1, cur % d)
         IN  [q |-> Append(rest.q, cur \div d), r |-> rest.r]

ShortDiv(b, d) == LET x == ShortDivRec(b, d, 1, 0) IN [q |-> Trim(x.q), r |-> x.r]

\* b * 2^s.
ShiftLeft(b, s) ==
    IF b = <<>> THEN <<>>
    ELSE Zeros(s \div LimbBits) \o MulSmall(b, 2 ^ (s % LimbBits))

\* floor(b / 2^s), and whether any bit was shifted out.
ShiftRight(b, s) ==
    LET w == s \div LimbBits IN
    IF w >= Len(b) THEN [q |-> <<>>, sticky |-> b # <<>>]
    ELSE LET sd == ShortDiv(SubSeq(b, w + 1, Len(b)), 2 ^ (s % LimbBits))
         IN  [q |-> sd.q, sticky |-> sd.r # 0 \/ \E j \in 1..w : b[j] # 0]

FZero == [m |-> <<>>, e |-> 0]

\* The double nearest to q * 2^e (plus a nonzero fraction of 2^e when sticky;
\* callers pass sticky only with more than MantBits + 1 bits of q).
RoundBits(q, sticky, e) ==
    LET n == BitLen(q) IN
    IF n = 0 THEN FZero
    ELSE IF n <= MantBits
         THEN [m |-> ShiftLeft(q, MantBits - n), e |-> e - (MantBits - n)]
    ELSE LET x    == n - MantBits
             sh   == ShiftRight(q, x - 1)
             half == ShortDiv(sh.q, 2)
             kept == half.q
             up   == half.r = 1 /\ (sticky \/ sh.sticky \/ kept[1] % 2 = 1)
             m1   == IF up THEN AddC(kept, <<1>>, 0) ELSE kept
         IN  IF BitLen(m1) > MantBits
             THEN [m |-> ShortDiv(m1, 2).q, e |-> e + x + 1]
             ELSE [m |-> m1, e |-> e + x]

\* (a as f64) / (b as f64) for integers a >= 0 and 0 < b < 2^21, which a
\* double holds exactly.
FDivNat(a, b) ==
    LET s  == MantBits + 2 + SmallBitLen(b)
        sd == ShortDiv(ShiftLeft(Nat2Limbs(a), s), b)
    IN  RoundBits(sd.q, sd.r # 0, -s)

\* x * y for doubles.
FMul(x, y) == RoundBits(MulBig(x.m, y.m), FALSE, x.e + y.e)

\* x * (n as f64) for a double x and an integer 0 <= n < 2^21.
FMulNat(x, n) == RoundBits(MulSmall(x.m, n), FALSE, x.e)

\* x as u64: truncation toward zero.
FToU64(x) ==
    IF x.m = <<>> THEN 0
    ELSE IF x.e >= 0 THEN Limbs2Nat(ShiftLeft(x.m, x.e))
    ELSE Limbs2Nat(ShiftRight(x.m, -x.e).q)

MicrosPerSecond == 1000000

\* Mutant: the ticks are divided by the pulses per quarter note as integers.
TicksToUsWholeBeats(abs_ticks, ppq, us_per_qn) ==
    LET t_sec == FMul(FDivNat(abs_ticks \div ppq, 1), FDivNat(us_per_qn, MicrosPerSecond))
    IN  FToU64(FMulNat(t_sec, MicrosPerSecond))

\* main.rs lines 129-130.
TicksToUs(abs_ticks, ppq, us_per_qn) ==
    LET t_sec == FMul(FDivNat(abs_ticks, ppq), FDivNat(us_per_qn, MicrosPerSecond))
    IN  FToU64(FMulNat(t_sec, MicrosPerSecond))

(***************************************************************************)
(* The decoded file (midly::Smf): a header timing and tracks of events,    *)
(* each a delta in ticks and a kind.  The inputs are the files of at most  *)
(* MaxTracks tracks drawn from a library of tracks that exercises every    *)
(* event kind, equal timestamps within and across tracks, tempo changes    *)
(* that raise and lower the tempo mid-track, and ticks whose conversion    *)
(* is not exact in binary64.                                               *)
(***************************************************************************)
MaxTracks == 2
\* The most events a file holds in all its tracks together.
MaxEvents == 10

Tempo(d, tp)              == [delta |-> d, kind |-> "Tempo", tp |-> tp]
OtherMeta(d, name)        == [delta |-> d, kind |-> name]
SysEx(d)                  == [delta |-> d, kind |-> "SysEx"]
NoteOn(d, ch, key, vel)   == [delta |-> d, kind |-> "NoteOn", ch |-> ch, key |-> key, vel |-> vel]
NoteOff(d, ch, key, vel)  == [delta |-> d, kind |-> "NoteOff", ch |-> ch, key |-> key, vel |-> vel]
ProgramChange(d, ch, pr)  == [delta |-> d, kind |-> "ProgramChange", ch |-> ch, program |-> pr]
Controller(d, ch, cc, v)  == [delta |-> d, kind |-> "Controller", ch |-> ch, controller |-> cc, value |-> v]
PitchBend(d, ch, bend)    == [delta |-> d, kind |-> "PitchBend", ch |-> ch, bend |-> bend]
Aftertouch(d, ch, key, v) == [delta |-> d, kind |-> "Aftertouch", ch |-> ch, key |-> key, vel |-> v]
ChannelAftertouch(d, ch, v) == [delta |-> d, kind |-> "ChannelAftertouch", ch |-> ch, vel |-> v]

MidiKinds == {"NoteOn", "NoteOff", "ProgramChange", "Controller", "PitchBend",
              "Aftertouch", "ChannelAftertouch"}

TrackLibrary ==
    { <<Tempo(0, 500000), NoteOn(240, 0, 60, 100)>>,
      <<NoteOn(120, 1, 64, 90)>>,
      <<Tempo(0, 1000000), NoteOn(240, 0, 60, 100), Tempo(0, 500000), NoteOn(120, 1, 64, 90)>>,
      <<Tempo(0, 500000), NoteOn(120, 4, 62, 80), Tempo(120, 1000000), NoteOn(120, 4, 62, 0)>>,
      <<Tempo(0, 1000000), NoteOn(123, 0, 60, 100), OtherMeta(117, "TimeSignature"),
        NoteOff(240, 0, 60, 64), OtherMeta(0, "EndOfTrack")>>,
      <<OtherMeta(0, "TrackName"), NoteOn(0, 2, 72, 0), NoteOn(0, 2, 72, 1),
        PitchBend(123, 2, 16383), SysEx(0)>>,
      <<ProgramChange(0, 3, 5), Controller(120, 3, 7, 100), Aftertouch(120, 3, 60, 40),
        ChannelAftertouch(0, 3, 50), OtherMeta(0, "KeySignature")>>,
      <<>> }

\* The header timing: metrical with a pulses-per-quarter-note count, or SMPTE
\* timecode.  Multi-track files are enumerated under the first header only.
MainHeader == [timing |-> "Metrical", t |-> 480]
Headers == {MainHeader, [timing |-> "Metrical", t |-> 96], [timing |-> "Timecode", t |-> 0]}

RECURSIVE TrackLists(_)
TrackLists(n) ==
    IF n = 0 THEN {<<>>}
    ELSE LET shorter == TrackLists(n - 1)
         IN  shorter \cup {Append(ts, t) : ts \in {x \in shorter : Len(x) = n - 1},
                                           t \in TrackLibrary}

RECURSIVE Events(_)
Events(tracks) ==
    IF tracks = <<>> THEN 0 ELSE Len(Head(tracks)) + Events(Tail(tracks))

Files ==
    {f \in {[header |-> h, tracks |-> ts] : h \in Headers, ts \in TrackLists(MaxTracks)} :
        /\ f.header = MainHeader \/ Len(f.tracks) <= 1
        /\ Events(f.tracks) <= MaxEvents}

(***************************************************************************)
(* The program state.                                                      *)
(***************************************************************************)
VARIABLES
    smf,                \* the parsed file (line 29)
    pc,                 \* where main() is; "exit" once it has returned (line 344)
    ppq,                \* line 33
    default_us_per_qn,  \* line 40
    tr, ev,             \* the track and event the loops of lines 121-192 are at
    abs_ticks,          \* line 122
    us_per_qn,          \* line 123 (a double that holds an integer)
    timeline,           \* line 117, sorted in place at line 195
    flat,               \* history: the timeline as built, before line 195 sorted it
    dpc,                \* where the conductor thread (lines 251-300) is; "dead" once
                        \* the process has ended
    i,                  \* line 253: the conductor's cursor (0-based)
    now_us,             \* line 256
    calls,              \* history: the engine calls the conductor has made
    res,                \* what the engine call of the conductor's latest step returned
    log,                \* history: the diagnostics the conductor has printed (line 276)
    clock,              \* microseconds elapsed since `start` (line 252)
    lock,               \* who holds the Mutex around the synth (line 221)
    rpc,                \* where the audio callback (lines 310-314, 326-330) is:
                        \* idle, blocked on the lock, or in Synth::write
    alt,                \* two-run comparison: the Tempo event the second run changes
    run,                \* two-run comparison: which run this is
    saved               \* two-run comparison: the timeline the first run built

mainVars == <<smf, pc, ppq, default_us_per_qn, tr, ev, abs_ticks, us_per_qn, timeline, flat>>
buildVars == <<ppq, default_us_per_qn, tr, ev, abs_ticks, us_per_qn, timeline, flat>>
conductorVars == <<dpc, i, now_us, calls, res, log>>
playVars == <<dpc, i, now_us, calls, res, log, clock, lock, rpc>>
pairVars == <<alt, run, saved>>
vars == <<smf, pc, ppq, default_us_per_qn, tr, ev, abs_ticks, us_per_qn, timeline, flat,
          dpc, i, now_us, calls, res, log, clock, lock, rpc, alt, run, saved>>

DefaultTempo == 500000
FallbackPpq == 480

\* Lines 33-36.
Ppq(header) == IF header.timing = "Metrical" THEN header.t ELSE FallbackPpq

\* Lines 42-49: the first Tempo meta event in track order, else the default.
RECURSIVE FirstTempoFrom(_, _, _)
FirstTempoFrom(tracks, t, e) ==
    IF t > Len(tracks) THEN DefaultTempo
    ELSE IF e > Len(tracks[t]) THEN FirstTempoFrom(tracks, t + 1, 1)
    ELSE IF tracks[t][e].kind = "Tempo" THEN tracks[t][e].tp
    ELSE FirstTempoFrom(tracks, t, e + 1)

\* Mutant: the scan does not stop at the first Tempo event, so the last one wins.
RECURSIVE LastTempoFrom(_, _, _, _)
LastTempoFrom(tracks, t, e, found) ==
    IF t > Len(tracks) THEN found
    ELSE IF e > Len(tracks[t]) THEN LastTempoFrom(tracks, t + 1, 1, found)
    ELSE LastTempoFrom(tracks, t, e + 1,
                       IF tracks[t][e].kind = "Tempo" THEN tracks[t][e].tp ELSE found)

LastTempo(tracks) == LastTempoFrom(tracks, 1, 1, DefaultTempo)

FirstTempo(tracks) == FirstTempoFrom(tracks, 1, 1)

\* Lines 165-186: the Msg of a channel-voice message, variant for variant.
VoiceMsg(e) ==
    CASE e.kind = "NoteOn" ->
            [type |-> "NoteOn", ch |-> e.ch, key |-> e.key, vel |-> e.vel]
      [] e.kind = "NoteOff" ->
            [type |-> "NoteOff", ch |-> e.ch, key |-> e.key, vel |-> e.vel]
      [] e.kind = "ProgramChange" ->
            [type |-> "Program", ch |-> e.ch, prog |-> e.program]
      [] e.kind = "Controller" ->
            [type |-> "Control", ch |-> e.ch, cc |-> e.controller, val |-> e.value]
      [] e.kind = "PitchBend" ->
            [type |-> "PitchBend", ch |-> e.ch, bend |-> e.bend]
      [] e.kind = "Aftertouch" ->
            [type |-> "AfterTouch", ch |-> e.ch, key |-> e.key, vel |-> e.vel]
      [] e.kind = "ChannelAftertouch" ->
            [type |-> "ChannelAftertouch", ch |-> e.ch, vel |-> e.vel]

\* Mutant: a NoteOn with velocity 0 is not turned into a NoteOff.
MidiMsgUnnormalized(e) == VoiceMsg(e)

\* Lines 160-187: a NoteOn with velocity 0 becomes a NoteOff (lines 161-164);
\* every other message keeps its variant.
MidiMsg(e) ==
    IF e.kind = "NoteOn" /\ e.vel = 0
    THEN [type |-> "NoteOff", ch |-> e.ch, key |-> e.key, vel |-> 0]
    ELSE VoiceMsg(e)

\* Mutant: a Tempo event changes the tempo but leaves no marker on the timeline.
EmittedNoMarker(e, t_us, src) ==
    IF e.kind \in MidiKinds
    THEN <<[t_us |-> t_us, msg |-> MidiMsg(e), src |-> src]>>
    ELSE <<>>

\* Lines 132-190: what the event pushes onto the timeline.  src is bookkeeping:
\* the track and the index in it of the event the entry was made from.
Emitted(e, t_us, src) ==
    IF e.kind = "Tempo"
    THEN <<[t_us |-> t_us, msg |-> [type |-> "Tempo", us |-> e.tp], src |-> src]>>
    ELSE IF e.kind \in MidiKinds
    THEN <<[t_us |-> t_us, msg |-> MidiMsg(e), src |-> src]>>
    ELSE <<>>

\* Mutant: an unstable sort, which puts an entry before those of the same key.
InsertBeforeEqual(s, e) ==
    LET n == Cardinality({k \in 1..Len(s) : s[k].t_us < e.t_us})
    IN  SubSeq(s, 1, n) \o <<e>> \o SubSeq(s, n + 1, Len(s))

\* Mutant: the timeline is left as built.
NoSort(s) == s

\* Line 195: Vec::sort_by_key is a stable sort; a stable sort's result is unique,
\* here computed by insertion behind the entries whose key is not greater.
InsertByKey(s, e) ==
    LET n == Cardinality({k \in 1..Len(s) : s[k].t_us <= e.t_us})
    IN  SubSeq(s, 1, n) \o <<e>> \o SubSeq(s, n + 1, Len(s))

RECURSIVE SortPrefix(_, _)
SortPrefix(s, k) == IF k = 0 THEN <<>> ELSE InsertByKey(SortPrefix(s, k - 1), s[k])

SortByKey(s) == SortPrefix(s, Len(s))

PollUs == 1000
TailUs == 2000000
MainTailUs == 3000000
\* Line 91: the bend of Msg::PitchBend is a u16.
MaxU16 == 65535
MaxBend == 16383

\* Mutant: an event is dispatched as soon as it is due within the next poll.
DueWithinPoll(t_us, now) == t_us <= now + PollUs

\* Line 259: the event at the cursor is due.
Due(t_us, now) == t_us <= now

\* Lines 261-290: the engine call a message is translated into, if any.
EngineCall(msg) ==
    CASE msg.type = "NoteOn" ->
            <<[op |-> "note_on", ch |-> msg.ch, key |-> msg.key, vel |-> msg.vel]>>
      [] msg.type = "NoteOff" ->
            <<[op |-> "note_off", ch |-> msg.ch, key |-> msg.key]>>
      [] msg.type = "Program" ->
            <<[op |-> "program_change", ch |-> msg.ch, prog |-> msg.prog]>>
      [] msg.type = "Control" ->
            <<[op |-> "cc", ch |-> msg.ch, cc |-> msg.cc, val |-> msg.val]>>
      [] msg.type = "PitchBend" ->
            IF msg.bend > MaxBend THEN <<>>
            ELSE <<[op |-> "pitch_bend", ch |-> msg.ch, bend |-> msg.bend]>>
      [] msg.type = "AfterTouch" ->
            <<[op |-> "key_pressure", ch |-> msg.ch, key |-> msg.key, vel |-> msg.vel]>>
      [] msg.type = "ChannelAftertouch" ->
            <<[op |-> "channel_pressure", ch |-> msg.ch, vel |-> msg.vel]>>
      [] msg.type = "Tempo" -> <<>>

\* What an engine call can return: the engine reports failure for a call it
\* rejects; no call, no result.
Results(call) == IF call = <<>> THEN {"none"} ELSE {"ok", "err"}

\* Lines 274-276: the only diagnostic the conductor prints, for the event at
\* cursor `at`.
Diagnostic(msg, at) ==
    IF msg.type = "PitchBend" /\ msg.bend > MaxBend
    THEN <<[at |-> at, text |-> "Dropping out-of-range raw bend", bend |-> msg.bend]>>
    ELSE <<>>

(***************************************************************************)
(* Wall-clock time.  The conductor only ever compares the clock with the   *)
(* timestamps of the timeline, so the clock moves between the instants     *)
(* around which that comparison changes: each timestamp, the microsecond   *)
(* before it, and one poll interval past each.                             *)
(***************************************************************************)
Instants ==
    {0} \cup {timeline[k].t_us : k \in 1..Len(timeline)}
        \cup {timeline[k].t_us - 1 : k \in {x \in 1..Len(timeline) : timeline[x].t_us > 0}}

\* Line 295: thread::sleep returns no sooner than the poll interval.
WakeTimes(c) ==
    LET later == {w \in Instants : w >= c + PollUs}
    IN  IF c \in Instants \/ later = {} THEN later \cup {c + PollUs} ELSE later

NoChange == [tr |-> 0, ev |-> 0, tp |-> 0]

Start ==
    /\ pc = "scan"
    /\ ppq = 0
    /\ default_us_per_qn = 0
    /\ tr = 0
    /\ ev = 0
    /\ abs_ticks = 0
    /\ us_per_qn = 0
    /\ timeline = <<>>
    /\ flat = <<>>
    /\ dpc = "idle"
    /\ i = 0
    /\ now_us = 0
    /\ calls = <<>>
    /\ res = "none"
    /\ log = <<>>
    /\ clock = 0
    /\ lock = "free"
    /\ rpc = "idle"
    /\ run = 1
    /\ saved = <<>>

Init ==
    /\ smf \in Files
    /\ alt = NoChange
    /\ Start

\* Lines 33-49: the timing setup and the scan for the initial tempo.
Scan ==
    /\ pc = "scan"
    /\ ppq' = Ppq(smf.header)
    /\ default_us_per_qn' = FirstTempo(smf.tracks)
    /\ tr' = 1
    /\ ev' = 0
    /\ pc' = "build"
    /\ UNCHANGED <<smf, abs_ticks, us_per_qn, timeline, flat, playVars, pairVars>>

\* Mutant: the tempo a track ended with is the tempo the next track starts with.
BeginTrackCarryTempo ==
    /\ pc = "build"
    /\ ev = 0
    /\ IF tr > Len(smf.tracks)
       THEN /\ pc' = "sort"
            /\ UNCHANGED <<tr, ev, abs_ticks, us_per_qn>>
       ELSE /\ abs_ticks' = 0
            /\ us_per_qn' = IF tr = 1 THEN default_us_per_qn ELSE us_per_qn
            /\ IF smf.tracks[tr] = <<>>
               THEN tr' = tr + 1 /\ ev' = 0
               ELSE tr' = tr /\ ev' = 1
            /\ pc' = pc
    /\ UNCHANGED <<smf, ppq, default_us_per_qn, timeline, flat, playVars, pairVars>>

\* Lines 121-123: the head of the loop over the tracks.
BeginTrack ==
    /\ pc = "build"
    /\ ev = 0
    /\ IF tr > Len(smf.tracks)
       THEN /\ pc' = "sort"
            /\ UNCHANGED <<tr, ev, abs_ticks, us_per_qn>>
       ELSE /\ abs_ticks' = 0
            /\ us_per_qn' = default_us_per_qn
            /\ IF smf.tracks[tr] = <<>>
               THEN tr' = tr + 1 /\ ev' = 0
               ELSE tr' = tr /\ ev' = 1
            /\ pc' = pc
    /\ UNCHANGED <<smf, ppq, default_us_per_qn, timeline, flat, playVars, pairVars>>

\* Lines 125-191: one event of the track.
BuildEvent ==
    /\ pc = "build"
    /\ ev >= 1
    /\ LET e     == smf.tracks[tr][ev]
           ticks == abs_ticks + e.delta
           t_us  == TicksToUs(ticks, ppq, us_per_qn)
       IN  /\ abs_ticks' = ticks
           /\ us_per_qn' = IF e.kind = "Tempo" THEN e.tp ELSE us_per_qn
           /\ timeline' = timeline \o Emitted(e, t_us, <<tr, ev>>)
    /\ IF ev = Len(smf.tracks[tr])
       THEN tr' = tr + 1 /\ ev' = 0
       ELSE tr' = tr /\ ev' = ev + 1
    /\ UNCHANGED <<smf, pc, ppq, default_us_per_qn, flat, playVars, pairVars>>

\* Line 195.
SortTimeline ==
    /\ pc = "sort"
    /\ flat' = timeline
    /\ timeline' = SortByKey(timeline)
    /\ pc' = "spawn"
    /\ UNCHANGED <<smf, ppq, default_us_per_qn, tr, ev, abs_ticks, us_per_qn, playVars, pairVars>>

\* Lines 249-253: the conductor thread is launched and takes its start reference.
Spawn ==
    /\ pc = "spawn"
    /\ pc' = "stream"
    /\ dpc' = "outer"
    /\ i' = 0
    /\ clock' = 0
    /\ UNCHANGED <<smf, buildVars, now_us, calls, res, log, lock, rpc, pairVars>>

\* Lines 303-339: the output stream is built and started.
Play ==
    /\ pc = "stream"
    /\ pc' = "wait"
    /\ UNCHANGED <<smf, buildVars, playVars, pairVars>>

\* Lines 255-256: the outer loop's test and the clock sample.
Sample ==
    /\ dpc = "outer"
    /\ IF i < Len(timeline)
       THEN now_us' = clock /\ dpc' = "inner"
       ELSE now_us' = now_us /\ dpc' = "tail"
    /\ UNCHANGED <<mainVars, i, calls, res, log, clock, lock, rpc, pairVars>>

\* Mutant: the conductor goes on to the engine without waiting for the lock.
AcquireUnguarded ==
    /\ dpc = "inner"
    /\ i < Len(timeline)
    /\ Due(timeline[i + 1].t_us, now_us)
    /\ lock' = "conductor"
    /\ dpc' = "call"
    /\ res' = "none"
    /\ UNCHANGED <<mainVars, i, now_us, calls, log, clock, rpc, pairVars>>

\* Lines 259-260: the event at the cursor is due and the lock is taken.
Acquire ==
    /\ dpc = "inner"
    /\ i < Len(timeline)
    /\ Due(timeline[i + 1].t_us, now_us)
    /\ lock = "free"
    /\ lock' = "conductor"
    /\ dpc' = "call"
    /\ res' = "none"
    /\ UNCHANGED <<mainVars, i, now_us, calls, log, clock, rpc, pairVars>>

\* Mutant: the cursor moves two entries on when it can.
DispatchSkip ==
    /\ dpc = "call"
    /\ calls' = calls \o EngineCall(timeline[i + 1].msg)
    /\ res' \in Results(EngineCall(timeline[i + 1].msg))
    /\ log' = log \o Diagnostic(timeline[i + 1].msg, i)
    /\ i' = IF i + 2 <= Len(timeline) THEN i + 2 ELSE i + 1
    /\ lock' = "free"
    /\ dpc' = "inner"
    /\ UNCHANGED <<mainVars, now_us, clock, rpc, pairVars>>

\* Mutant: the guard lives as long as the inner loop, not one iteration of it.
DispatchKeepLock ==
    /\ dpc = "call"
    /\ calls' = calls \o EngineCall(timeline[i + 1].msg)
    /\ res' \in Results(EngineCall(timeline[i + 1].msg))
    /\ log' = log \o Diagnostic(timeline[i + 1].msg, i)
    /\ i' = i + 1
    /\ lock' = IF i + 1 < Len(timeline) /\ Due(timeline[i + 2].t_us, now_us)
               THEN lock ELSE "free"
    /\ dpc' = IF i + 1 < Len(timeline) /\ Due(timeline[i + 2].t_us, now_us)
              THEN "call" ELSE "inner"
    /\ UNCHANGED <<mainVars, now_us, clock, rpc, pairVars>>

\* Mutant: a call that reports failure ends the dispatch loop.
DispatchAbortOnFailure ==
    /\ dpc = "call"
    /\ calls' = calls \o EngineCall(timeline[i + 1].msg)
    /\ res' \in Results(EngineCall(timeline[i + 1].msg))
    /\ log' = log \o Diagnostic(timeline[i + 1].msg, i)
    /\ i' = i + 1
    /\ lock' = "free"
    /\ dpc' = IF res' = "err" THEN "tail" ELSE "inner"
    /\ UNCHANGED <<mainVars, now_us, clock, rpc, pairVars>>

\* Lines 261-292: the engine call, whose result `let _ =` throws away, the
\* diagnostic of line 276, the cursor's advance, the guard's drop.
Dispatch ==
    /\ dpc = "call"
    /\ calls' = calls \o EngineCall(timeline[i + 1].msg)
    /\ res' \in Results(EngineCall(timeline[i + 1].msg))
    /\ log' = log \o Diagnostic(timeline[i + 1].msg, i)
    /\ i' = i + 1
    /\ lock' = "free"
    /\ dpc' = "inner"
    /\ UNCHANGED <<mainVars, now_us, clock, rpc, pairVars>>

\* Line 259: nothing more is due; the inner loop ends.
InnerExit ==
    /\ dpc = "inner"
    /\ ~(i < Len(timeline) /\ Due(timeline[i + 1].t_us, now_us))
    /\ dpc' = "sleep"
    /\ res' = "none"
    /\ UNCHANGED <<mainVars, i, now_us, calls, log, clock, lock, rpc, pairVars>>

\* Line 295: the poll sleep.
Sleep ==
    /\ dpc = "sleep"
    /\ clock' \in WakeTimes(clock)
    /\ dpc' = "outer"
    /\ UNCHANGED <<mainVars, i, now_us, calls, res, log, lock, rpc, pairVars>>

\* Line 299: the tail sleep, after which the thread ends.
TailSleep ==
    /\ dpc = "tail"
    /\ clock' = clock + TailUs
    /\ dpc' = "done"
    /\ UNCHANGED <<mainVars, i, now_us, calls, res, log, lock, rpc, pairVars>>

\* Time passes while the conductor runs.  The clock is read at the sample of
\* line 256 and matters at an engine call, so it is moved ahead of those; the
\* poll sleep moves it itself.
Tick ==
    /\ dpc \in {"outer", "call"}
    /\ clock' \in {c \in Instants : c > clock}
    /\ UNCHANGED <<mainVars, conductorVars, lock, rpc, pairVars>>

\* Lines 311, 327: the audio callback reaches synth.lock() while the conductor
\* holds the lock, and blocks.
RenderBlock ==
    /\ pc \in {"wait", "woken"}
    /\ rpc = "idle"
    /\ lock = "conductor"
    /\ rpc' = "blocked"
    /\ UNCHANGED <<mainVars, conductorVars, clock, lock, pairVars>>

\* Lines 310-311, 326-327: the audio callback takes the lock, at once or after
\* it was blocked.  std::sync::Mutex hands a released lock to whichever thread
\* takes it first.
RenderLock ==
    /\ pc \in {"wait", "woken"}
    /\ rpc \in {"idle", "blocked"}
    /\ lock = "free"
    /\ lock' = "render"
    /\ rpc' = "write"
    /\ UNCHANGED <<mainVars, conductorVars, clock, pairVars>>

\* Lines 311, 327: Synth::write fills the buffer and the guard is dropped.
RenderWrite ==
    /\ rpc = "write"
    /\ lock' = "free"
    /\ rpc' = "idle"
    /\ UNCHANGED <<mainVars, conductorVars, clock, pairVars>>

\* Line 196.
last_t_us == IF timeline = <<>> THEN 0 ELSE timeline[Len(timeline)].t_us

\* Lines 342-343: main sleeps last_t_us / 1e6 + 3 seconds.  The sleep ends once
\* that much wall-clock time has passed since main reached it; nothing ties the
\* conductor's progress to that time.  The conductor spends its time in the poll
\* sleep, so that is where the time passes.
SleepMain ==
    /\ pc = "wait"
    /\ dpc \in {"sleep", "done"}
    /\ clock' = clock + last_t_us + MainTailUs
    /\ pc' = "woken"
    /\ UNCHANGED <<smf, buildVars, conductorVars, lock, rpc, pairVars>>

\* Line 344: main returns without joining the conductor; the process ends and
\* its other threads end with it.
Exit ==
    /\ pc = "woken"
    /\ pc' = "exit"
    /\ dpc' = "dead"
    /\ rpc' = "dead"
    /\ lock' = "free"
    /\ UNCHANGED <<smf, buildVars, i, now_us, calls, res, log, clock, pairVars>>

Next ==
    \/ Scan \/ BeginTrack \/ BuildEvent \/ SortTimeline \/ Spawn \/ Play
    \/ Sample \/ Acquire \/ Dispatch \/ InnerExit \/ Sleep \/ TailSleep \/ Tick
    \/ RenderBlock \/ RenderLock \/ RenderWrite \/ SleepMain \/ Exit

Spec == Init /\ [][Next]_vars

(***************************************************************************)
(* The two-run comparison: the timeline is built from a file, then built   *)
(* again from the same file with the value of one Tempo event changed.     *)
(***************************************************************************)
AltTempos == {250000, 1000000}

TempoChanges(f) ==
    UNION {{[tr |-> t, ev |-> e, tp |-> v] :
                e \in {x \in 1..Len(f.tracks[t]) : f.tracks[t][x].kind = "Tempo"},
                v \in AltTempos} : t \in 1..Len(f.tracks)}

Changed(f, c) ==
    [f EXCEPT !.tracks[c.tr][c.ev].tp = c.tp]

InitPair ==
    /\ smf \in Files
    /\ alt \in {c \in TempoChanges(smf) : smf.tracks[c.tr][c.ev].tp # c.tp}
    /\ Start

\* The first build is kept and the build starts over on the changed file.
Rerun ==
    /\ pc = "sort"
    /\ run = 1
    /\ run' = 2
    /\ saved' = timeline
    /\ smf' = Changed(smf, alt)
    /\ pc' = "scan"
    /\ timeline' = <<>>
    /\ ppq' = 0
    /\ default_us_per_qn' = 0
    /\ tr' = 0
    /\ ev' = 0
    /\ abs_ticks' = 0
    /\ us_per_qn' = 0
    /\ UNCHANGED <<flat, playVars, alt>>

NextPair == Scan \/ BeginTrack \/ BuildEvent \/ Rerun

SpecPair == InitPair /\ [][NextPair]_vars

(***************************************************************************)
(* The conductor on its own: the thread of lines 251-300 is handed a        *)
(* timeline of the type Vec<Timed>, whose PitchBend payload is any u16.     *)
(* Entry k is stamped StampUs(k), so that entries come in pairs with equal  *)
(* timestamps, one poll interval and a half apart.                          *)
(***************************************************************************)
MaxQueue == 3

Payloads ==
    { [type |-> "PitchBend", ch |-> 0, bend |-> 16384],
      [type |-> "PitchBend", ch |-> 1, bend |-> MaxU16],
      [type |-> "PitchBend", ch |-> 2, bend |-> 16383],
      [type |-> "PitchBend", ch |-> 3, bend |-> 0],
      [type |-> "NoteOn", ch |-> 4, key |-> 60, vel |-> 100] }

StampUs(k) == ((k - 1) \div 2) * (PollUs + PollUs \div 2)

Queues ==
    UNION {{[k \in 1..n |-> [t_us |-> StampUs(k), msg |-> q[k], src |-> <<0, k>>]] :
                q \in [1..n -> Payloads]} : n \in 0..MaxQueue}

InitConductor ==
    /\ smf = [header |-> MainHeader, tracks |-> <<>>]
    /\ alt = NoChange
    /\ pc = "spawn"
    /\ ppq = Ppq(MainHeader)
    /\ default_us_per_qn = DefaultTempo
    /\ tr = 1
    /\ ev = 0
    /\ abs_ticks = 0
    /\ us_per_qn = 0
    /\ timeline \in Queues
    /\ flat = timeline
    /\ dpc = "idle"
    /\ i = 0
    /\ now_us = 0
    /\ calls = <<>>
    /\ res = "none"
    /\ log = <<>>
    /\ clock = 0
    /\ lock = "free"
    /\ rpc = "idle"
    /\ run = 1
    /\ saved = <<>>

NextConductor ==
    \/ Spawn \/ Play
    \/ Sample \/ Acquire \/ Dispatch \/ InnerExit \/ Sleep \/ TailSleep \/ Tick
    \/ RenderBlock \/ RenderLock \/ RenderWrite \/ SleepMain \/ Exit

SpecConductor == InitConductor /\ [][NextConductor]_vars

\* The scheduling the threads run under: main and the conductor take their next
\* step in the end, sleeps end (wall-clock time advances), the audio callback
\* gives the lock back, and the conductor, asking for the lock, gets it.
Fairness ==
    /\ WF_vars(Spawn \/ Play)
    /\ WF_vars(Sample \/ Dispatch \/ InnerExit \/ Sleep \/ TailSleep)
    /\ SF_vars(Acquire)
    /\ WF_vars(RenderWrite)

FairConductor == SpecConductor /\ Fairness

(***************************************************************************)
(* Properties.                                                             *)
(***************************************************************************)
\* The timeline is final: line 195 has sorted it.
Built == pc \in {"spawn", "stream", "wait", "woken", "exit"}

\* The input event a timeline entry was made from, and its absolute tick.
SrcEvent(en) == smf.tracks[en.src[1]][en.src[2]]

RECURSIVE AbsTick(_, _)
AbsTick(track, e) == IF e = 0 THEN 0 ELSE AbsTick(track, e - 1) + track[e].delta

EntryTick(en) == AbsTick(smf.tracks[en.src[1]], en.src[2])

Range(s) == {s[k] : k \in 1..Len(s)}

Count(x, s) == Cardinality({k \in 1..Len(s) : s[k] = x})

IsPermutation(s, t) ==
    /\ Len(s) = Len(t)
    /\ \A x \in Range(s) \cup Range(t) : Count(x, s) = Count(x, t)

PosIn(s, x) == CHOOSE k \in 1..Len(s) : s[k] = x

IsPrefix(s, t) == Len(s) <= Len(t) /\ s = SubSeq(t, 1, Len(s))

\* The input events that are channel-voice messages or Tempo meta events, as
\* <<track, index>> in encounter order.
RECURSIVE EmittingFrom(_, _, _)
EmittingFrom(tracks, t, e) ==
    IF t > Len(tracks) THEN <<>>
    ELSE IF e > Len(tracks[t]) THEN EmittingFrom(tracks, t + 1, 1)
    ELSE (IF tracks[t][e].kind \in MidiKinds \cup {"Tempo"} THEN <<(<<t, e>>)>> ELSE <<>>)
         \o EmittingFrom(tracks, t, e + 1)

TempoEvents(track) == {e \in 1..Len(track) : track[e].kind = "Tempo"}

\* C1: once the merge step (line 195) has run, absolute time never decreases
\* from one element of the timeline to the next.
C1_Monotone ==
    Built => \A k \in 1..(Len(timeline) - 1) : timeline[k].t_us <= timeline[k + 1].t_us

\* A merged timeline in which an event encountered later was placed earlier.
C1_Witness ==
    /\ Built
    /\ \E j, k \in 1..Len(timeline) :
          /\ j < k
          /\ timeline[j].t_us < timeline[k].t_us
          /\ timeline[k].src[1] < timeline[j].src[1]

\* C2 (as claimed): when the conductor applies an event, every event of the same
\* track that was encountered before it has been applied already.
C2_TrackOrder ==
    dpc = "call" =>
        \A k \in 1..Len(timeline) :
            (/\ timeline[k].src[1] = timeline[i + 1].src[1]
             /\ timeline[k].src[2] < timeline[i + 1].src[2]) => k <= i

\* The events of the tracks other than track t, in the order they were built.
OtherTracks(s, t) == LET Other(en) == en.src[1] # t IN SelectSeq(s, Other)

\* The place of the file's first Tempo meta event in track order, <<0, 0>> if none.
RECURSIVE FirstTempoPosFrom(_, _, _)
FirstTempoPosFrom(tracks, t, e) ==
    IF t > Len(tracks) THEN <<0, 0>>
    ELSE IF e > Len(tracks[t]) THEN FirstTempoPosFrom(tracks, t + 1, 1)
    ELSE IF tracks[t][e].kind = "Tempo" THEN <<t, e>>
    ELSE FirstTempoPosFrom(tracks, t, e + 1)

BothBuilt == run = 2 /\ pc = "sort"

\* C3 (as claimed): two files that differ only in the value of one Tempo meta
\* event give the events of every other track the same timestamps.
C3_AnyTempo ==
    BothBuilt => OtherTracks(saved, alt.tr) = OtherTracks(timeline, alt.tr)

\* C3 (amended): two files that differ only in the value of one Tempo meta event
\* which is not the file's first Tempo meta event give the events of every other
\* track the same timestamps.
C3_NotFirstTempo ==
    (BothBuilt /\ <<alt.tr, alt.ev>> # FirstTempoPosFrom(smf.tracks, 1, 1))
        => OtherTracks(saved, alt.tr) = OtherTracks(timeline, alt.tr)

\* Both builds done, a later Tempo event changed, timestamps of its own track
\* moved, and other tracks have events.
C3_Witness ==
    /\ BothBuilt
    /\ <<alt.tr, alt.ev>> # FirstTempoPosFrom(smf.tracks, 1, 1)
    /\ OtherTracks(timeline, alt.tr) # <<>>
    /\ \E k \in 1..Len(timeline) : saved[k].t_us # timeline[k].t_us

\* C4: two entries of the merged timeline with the same timestamp stand in the
\* order in which they were built (track order, then arrival order).
C4_Stable ==
    Built =>
        \A j, k \in 1..Len(timeline) :
            (j < k /\ timeline[j].t_us = timeline[k].t_us)
                => PosIn(flat, timeline[j]) < PosIn(flat, timeline[k])

\* A merge that moved entries, with equal timestamps both across two tracks and
\* within one track.
C4_Witness ==
    /\ Built
    /\ timeline # flat
    /\ \E j, k \in 1..Len(timeline) :
          /\ j < k
          /\ timeline[j].t_us = timeline[k].t_us
          /\ timeline[j].src[1] # timeline[k].src[1]
    /\ \E j, k \in 1..Len(timeline) :
          /\ j < k
          /\ timeline[j].t_us = timeline[k].t_us
          /\ timeline[j].src[1] = timeline[k].src[1]

\* C5: the merged timeline is a permutation of the collection the builder
\* emitted, and that collection holds one entry for each channel-voice message
\* and each Tempo meta event of the input, in encounter order, and nothing else.
C5_Permutation ==
    Built =>
        /\ IsPermutation(flat, timeline)
        /\ [k \in 1..Len(flat) |-> flat[k].src] = EmittingFrom(smf.tracks, 1, 1)

\* A merge that moved entries of a file that holds a Tempo event, a channel-voice
\* message and another meta event.
C5_Witness ==
    /\ Built
    /\ timeline # flat
    /\ \E t \in 1..Len(smf.tracks) :
          \E e \in 1..Len(smf.tracks[t]) : smf.tracks[t][e].kind = "TrackName"
    /\ \E k \in 1..Len(timeline) : timeline[k].msg.type = "Tempo"
    /\ \E k \in 1..Len(timeline) : timeline[k].msg.type = "NoteOn"

\* C6 (as claimed): in a file without any Tempo meta event every timestamp is
\* abs_ticks * 500000 / ppq truncated to whole microseconds.
C6_DefaultTempo ==
    (Built /\ \A t \in 1..Len(smf.tracks) : TempoEvents(smf.tracks[t]) = {})
        => \A k \in 1..Len(timeline) :
              timeline[k].t_us = (EntryTick(timeline[k]) * DefaultTempo) \div ppq

\* C7 (as claimed): in a track whose only Tempo meta event is at tick 0 with value
\* U, every later event at absolute tick k has the timestamp k * U / ppq.
C7_TempoAtZero ==
    Built =>
        \A k \in 1..Len(timeline) :
            LET track  == smf.tracks[timeline[k].src[1]]
                tempos == TempoEvents(track)
                first  == CHOOSE e \in tempos : TRUE
            IN  (/\ Cardinality(tempos) = 1
                 /\ AbsTick(track, first) = 0
                 /\ timeline[k].src[2] > first)
                    => timeline[k].t_us
                          = (EntryTick(timeline[k]) * track[first].tp) \div ppq

\* The file of the end-to-end scenario, its timeline and its engine calls.
C8_File ==
    [header |-> [timing |-> "Metrical", t |-> 480],
     tracks |-> << <<Tempo(0, 500000), NoteOn(240, 0, 60, 100)>>,
                   <<NoteOn(120, 1, 64, 90)>> >>]

C8_Timeline ==
    << [t_us |-> 0, msg |-> [type |-> "Tempo", us |-> 500000]],
       [t_us |-> 125000, msg |-> [type |-> "NoteOn", ch |-> 1, key |-> 64, vel |-> 90]],
       [t_us |-> 250000, msg |-> [type |-> "NoteOn", ch |-> 0, key |-> 60, vel |-> 100]] >>

C8_Calls ==
    << [op |-> "note_on", ch |-> 1, key |-> 64, vel |-> 90],
       [op |-> "note_on", ch |-> 0, key |-> 60, vel |-> 100] >>

\* C8: for the two-track scenario file the merged timeline is the tempo marker at
\* 0, NoteOn(1,64,90) at 125000 and NoteOn(0,60,100) at 250000, and the conductor
\* makes exactly the two note-on calls, in that order.
C8_EndToEnd ==
    smf = C8_File =>
        /\ Built => [k \in 1..Len(timeline) |->
                        [t_us |-> timeline[k].t_us, msg |-> timeline[k].msg]] = C8_Timeline
        /\ IsPrefix(calls, C8_Calls)
        /\ dpc \in {"tail", "done"} => calls = C8_Calls

\* The scenario file played to its end.
C8_Witness == smf = C8_File /\ dpc = "done" /\ Len(calls) = 2

\* C9: no entry is a NoteOn with velocity 0; an input NoteOn with velocity 0 is
\* entered as NoteOff with velocity 0, same channel and key, at the timestamp of
\* its tick, and an input NoteOn with velocity >= 1 is entered unchanged.
C9_VelocityZero ==
    /\ \A k \in 1..Len(timeline) :
          LET en == timeline[k]
              e  == SrcEvent(en)
          IN  /\ en.msg.type = "NoteOn" => en.msg.vel >= 1
              /\ e.kind = "NoteOn" =>
                    en.msg = [type |-> IF e.vel = 0 THEN "NoteOff" ELSE "NoteOn",
                              ch |-> e.ch, key |-> e.key, vel |-> e.vel]
    /\ Built =>
          \A t \in 1..Len(smf.tracks) : \A e \in 1..Len(smf.tracks[t]) :
              smf.tracks[t][e].kind = "NoteOn" =>
                  \E k \in 1..Len(timeline) : timeline[k].src = <<t, e>>
    /\ \A j, k \in 1..Len(timeline) :
          LET a == timeline[j]
              b == timeline[k]
          IN  (/\ a.src[1] = b.src[1]
               /\ b.src[2] = a.src[2] + 1
               /\ SrcEvent(b).delta = 0
               /\ SrcEvent(a).kind = "NoteOn"
               /\ SrcEvent(b).kind = "NoteOn"
               /\ 0 \in {SrcEvent(a).vel, SrcEvent(b).vel}) => a.t_us = b.t_us

\* A merged timeline made from a NoteOn with velocity 0 and, at the same tick, a
\* NoteOn with a velocity above 0.
C9_Witness ==
    /\ Built
    /\ \E j, k \in 1..Len(timeline) :
          /\ SrcEvent(timeline[j]).kind = "NoteOn"
          /\ SrcEvent(timeline[j]).vel = 0
          /\ timeline[j].msg.type = "NoteOff"
          /\ timeline[k].msg.type = "NoteOn"
          /\ timeline[k].src = <<timeline[j].src[1], timeline[j].src[2] + 1>>
          /\ timeline[k].t_us = timeline[j].t_us

\* C10: when the conductor makes the call for an event, the time elapsed since
\* its start reference is at least the event's timestamp; and when a poll
\* iteration ends, no event that was due at its clock sample is left.
C10_NotBeforeDue ==
    /\ dpc = "call" => /\ timeline[i + 1].t_us <= now_us
                       /\ now_us <= clock
    /\ dpc = "sleep" => \A k \in (i + 1)..Len(timeline) : timeline[k].t_us > now_us

\* An engine call for an event with a timestamp above 0, made after earlier events
\* and while time has moved on since the sample.
C10_Witness ==
    /\ dpc = "call"
    /\ i >= 1
    /\ timeline[i + 1].t_us > 0
    /\ EngineCall(timeline[i + 1].msg) # <<>>
    /\ clock > now_us

\* The entries of s the conductor turns into an engine call.
Forwarded(s) ==
    LET Calls(en) == /\ en.msg.type # "Tempo"
                     /\ ~(en.msg.type = "PitchBend" /\ en.msg.bend > 16383)
    IN  SelectSeq(s, Calls)

BendCalls(s) == LET IsBend(c) == c.op = "pitch_bend" IN SelectSeq(s, IsBend)

InRangeBends(s) ==
    LET InRange(en) == en.msg.type = "PitchBend" /\ en.msg.bend <= 16383
    IN  SelectSeq(s, InRange)

\* C11: no pitch-bend call carries a raw value above 16383; the pitch-bend calls
\* made so far are, one for one and in order, the PitchBend entries with a value
\* in 0..16383 that the cursor has passed; an entry above 16383 adds no call of
\* any kind while the cursor moves past it, and the entries after it are
\* dispatched: the conductor ends with the cursor at the end of the timeline.
C11_BendDropped ==
    /\ \A k \in 1..Len(calls) :
          calls[k].op = "pitch_bend" => calls[k].bend \in 0..16383
    /\ LET passed == SubSeq(timeline, 1, i)
           bends  == InRangeBends(passed)
       IN  /\ BendCalls(calls)
                = [k \in 1..Len(bends) |->
                      [op |-> "pitch_bend", ch |-> bends[k].msg.ch, bend |-> bends[k].msg.bend]]
           /\ Len(calls) = Len(Forwarded(passed))
    /\ dpc \in {"tail", "done"} => i = Len(timeline)

\* The conductor has ended after a PitchBend above 16383 that was followed by a
\* PitchBend in range, which was forwarded.
C11_Witness ==
    /\ dpc = "done"
    /\ \E k \in 1..(Len(timeline) - 1) :
          /\ timeline[k].msg.type = "PitchBend"
          /\ timeline[k].msg.bend > 16383
          /\ timeline[k + 1].msg.type = "PitchBend"
          /\ timeline[k + 1].msg.bend = 16383
    /\ \E k \in 1..Len(calls) : calls[k].op = "pitch_bend" /\ calls[k].bend = 16383

\* C12: whichever engine calls report failure, a failed call leaves the
\* conductor in its dispatch loop with the cursor moved past the failed event,
\* the calls made are those of all the events the cursor has passed, and the
\* loop is only left with the cursor at the end of the timeline.
C12_FailureContinues ==
    /\ res = "err" =>
          /\ dpc \in {"inner", "dead"}
          /\ i >= 1
          /\ EngineCall(timeline[i].msg) = <<calls[Len(calls)]>>
    /\ Len(calls) = Len(Forwarded(SubSeq(timeline, 1, i)))
    /\ dpc \in {"tail", "done"} => i = Len(timeline) /\ Len(calls) = Len(Forwarded(timeline))

\* A call has just reported failure, after an earlier event was dispatched and
\* with events still to come, and the conductor is back in its loop.
C12_Witness ==
    /\ res = "err"
    /\ dpc = "inner"
    /\ i >= 2
    /\ i < Len(timeline)
    /\ Len(calls) >= 2

\* C13: once the conductor is launched, the conductor and the audio callback are
\* never both inside an engine operation, and whichever of them is inside one
\* holds the lock.
C13_MutualExclusion ==
    dpc # "idle" =>
        /\ ~(dpc = "call" /\ rpc = "write")
        /\ dpc = "call" => lock = "conductor"
        /\ rpc = "write" => lock = "render"

\* The audio callback is inside Synth::write while the conductor stands before
\* the lock with a due event.
C13_Witness ==
    /\ rpc = "write"
    /\ lock = "render"
    /\ dpc = "inner"
    /\ i < Len(timeline)
    /\ Due(timeline[i + 1].t_us, now_us)
    /\ EngineCall(timeline[i + 1].msg) # <<>>

\* The engine calls of the entries of s, in order.
RECURSIVE CallsOf(_)
CallsOf(s) == IF s = <<>> THEN <<>> ELSE EngineCall(Head(s).msg) \o CallsOf(Tail(s))

\* C14: the cursor is 0 until the conductor runs, never exceeds the length of
\* the timeline, and the calls made are exactly those of the entries before the
\* cursor, in timeline order; a step that moves the cursor moves it by one, is
\* the dispatch step, and handles the entry the cursor stood at; no step makes
\* a call without moving the cursor.
C14_ExactlyOnce ==
    /\ [](/\ i \in 0..Len(timeline)
          /\ dpc = "idle" => i = 0
          /\ Built => calls = CallsOf(SubSeq(timeline, 1, i)))
    /\ [][/\ i' \in {i, i + 1}
          /\ i' = i + 1 => /\ dpc = "call"
                            /\ timeline' = timeline
                            /\ calls' = calls \o EngineCall(timeline[i + 1].msg)
          /\ i' = i => calls' = calls]_vars

\* The conductor has ended with every entry of a timeline of three or more
\* handled, two or more of them by an engine call.
C14_Witness ==
    /\ dpc = "done"
    /\ Len(timeline) >= 3
    /\ i = Len(timeline)
    /\ Len(calls) >= 2
    /\ Len(calls) < Len(timeline)

\* C15: the conductor holds the lock exactly while it is at the engine call of
\* one event: it holds none at the clock sample, in the poll sleep, in the tail
\* sleep or afterwards; it takes the lock in a step that leaves the cursor
\* alone, and the step that moves the cursor by one gives the lock back.
C15_LockScope ==
    /\ [](lock = "conductor" <=> dpc = "call")
    /\ [][/\ (lock # "conductor" /\ lock' = "conductor") => (dpc = "inner" /\ i' = i)
          /\ i' # i => (lock = "conductor" /\ lock' = "free" /\ i' = i + 1)]_vars

\* Between two events that were due at the same clock sample the conductor has
\* given the lock back and the audio callback has taken it.
C15_Witness ==
    /\ dpc = "inner"
    /\ i >= 1
    /\ i < Len(timeline)
    /\ timeline[i].t_us <= now_us
    /\ Due(timeline[i + 1].t_us, now_us)
    /\ res # "none"
    /\ lock = "render"

\* C16 (as claimed): when the audio callback is blocked on the lock and the
\* conductor has given the lock back, the conductor does not take the lock again
\* before the callback has had it.
C16_NoBarging ==
    [][(rpc = "blocked" /\ lock = "free") => lock' # "conductor"]_vars

\* C17 (as claimed): under fair scheduling the conductor gets to the end of its
\* timeline, sleeps out the tail and ends.
C17_Terminates == <>(dpc = "done")

\* C17, as far as the conductor's own loop goes: under fair scheduling the
\* conductor ends after its tail sleep unless the process has ended first, and
\* once the cursor is at the end no further call is made.
C17_UnlessExit ==
    /\ <>(dpc \in {"done", "dead"})
    /\ [][i = Len(timeline) => (calls' = calls /\ i' = i)]_vars

\* C18 (as claimed): main has returned only if the conductor's cursor is at the
\* end of the timeline.
C18_NoEarlyExit == pc = "exit" => i = Len(timeline)

\* The tempo in force in a track after its first e events: the value of the
\* last Tempo meta event among them, the initial tempo d if there is none.
RECURSIVE TempoAfter(_, _, _)
TempoAfter(track, e, d) ==
    IF e = 0 THEN d
    ELSE IF track[e].kind = "Tempo" THEN track[e].tp
    ELSE TempoAfter(track, e - 1, d)

\* C19: while a track is converted, the tempo in use is the value of the last
\* Tempo meta event met so far in that same track, or the initial tempo if
\* there was none, whatever the tracks before it held; and every entry, the
\* tempo marker included, is stamped with the tempo that was in force before
\* the event itself.
C19_TempoScope ==
    /\ (pc = "build" /\ ev >= 1) =>
          us_per_qn = TempoAfter(smf.tracks[tr], ev - 1, default_us_per_qn)
    /\ pc \in {"build", "sort"} =>
          \A k \in 1..Len(timeline) :
              LET track == smf.tracks[timeline[k].src[1]]
                  e     == timeline[k].src[2]
              IN  timeline[k].t_us
                     = TicksToUs(AbsTick(track, e), ppq,
                                 TempoAfter(track, e - 1, default_us_per_qn))

\* A file has been converted in which a Tempo meta event after tick 0 changed
\* the tempo of its track, its marker carries the time the old tempo gives and
\* not the time the new tempo gives, and an event of the next track carries the
\* time the initial tempo gives and not the time the changed tempo gives.
C19_Witness ==
    /\ pc = "sort"
    /\ \E k \in 1..Len(timeline) :
          LET track == smf.tracks[timeline[k].src[1]]
              e     == timeline[k].src[2]
          IN  /\ timeline[k].msg.type = "Tempo"
              /\ timeline[k].t_us > 0
              /\ timeline[k].t_us # TicksToUs(AbsTick(track, e), ppq, track[e].tp)
              /\ \E j \in 1..Len(timeline) :
                    LET other == smf.tracks[timeline[j].src[1]]
                    IN  /\ timeline[j].src[1] = timeline[k].src[1] + 1
                        /\ TempoEvents(other) = {}
                        /\ timeline[j].t_us > 0
                        /\ timeline[j].t_us
                              # TicksToUs(AbsTick(other, timeline[j].src[2]), ppq, track[e].tp)

\* C20 (as claimed): when an engine call of the conductor has reported failure,
\* a diagnostic for the event of that call has been printed.
C20_FailureLogged ==
    res = "err" => \E k \in 1..Len(log) : log[k].at = i - 1

=============================================================================
